---- MODULE Spec2Model ----
(***************************************************************************)
(* Huffman coding tree of "Huffman Coding Tree/huffmantree.cpp": one       *)
(* HuffmanTree object, its members, and the operations encode, decode and  *)
(* the destructor.  Characters are byte values, strings and files are      *)
(* sequences of characters.                                                *)
(***************************************************************************)
EXTENDS Integers, Sequences, FiniteSets, TLC

\* ------------------------------------------------------------------ bounds
\* Longest short input text explored exhaustively.
MaxLen == 4
\* Longest code string of a hand-written table record.
MaxCodeLen == 2
\* Most records in a hand-written table.
MaxRecords == 2
\* Operations (encode, decode) invoked on one object before it is destroyed.
MaxOps == 2
\* Largest map whose unspecified iteration order is explored in full.
MaxPermuted == 2

\* ------------------------------------------------------- program constants
NL == 10
CharZero == 48
CharOne == 49
INT_MAX == 2147483647

\* ----------------------------------------------------------------- helpers
Range(s) == {s[i] : i \in DOMAIN s}

SeqsUpTo(A, n) == UNION {[1..k -> A] : k \in 0..n}

EmptyMap == [k \in {} |-> <<>>]

\* m[k] = v of an unordered_map: the entry is inserted or overwritten.
MapPut(m, k, v) == [x \in (DOMAIN m) \cup {k} |-> IF x = k THEN v ELSE m[x]]

IsPrefix(s, t) == Len(s) <= Len(t) /\ SubSeq(t, 1, Len(s)) = s

RECURSIVE SortedSeq(_)
SortedSeq(S) ==
    IF S = {} THEN <<>>
    ELSE LET m == CHOOSE x \in S : \A y \in S : x <= y
         IN <<m>> \o SortedSeq(S \ {m})

Reverse(s) == [i \in 1..Len(s) |-> s[Len(s) + 1 - i]]

\* The order in which a range-for visits an unordered_map is unspecified:
\* every order for a small map, the two sorted orders for a larger one.
IterationOrders(keys) ==
    IF Cardinality(keys) <= MaxPermuted
    THEN {f \in [1..Cardinality(keys) -> keys] :
             \A i, j \in DOMAIN f : i # j => f[i] # f[j]}
    ELSE {SortedSeq(keys), Reverse(SortedSeq(keys))}

\* ------------------------------------------------------------------- nodes
NullPtr == [kind |-> "null"]
\* An indeterminate pointer value that is not null.
WildPtr == [kind |-> "wild"]
\* A pointer to a node that has been deleted.
DanglingPtr == [kind |-> "dangling"]

CountNode(c, l, r) == [kind |-> "node", count |-> c, left |-> l, right |-> r]

HuffmanTreeNode(ch, c) ==
    [kind |-> "leaf", letter |-> ch, count |-> c, left |-> NullPtr, right |-> NullPtr]

\* The priority_queue's comparison: node1 is ordered below node2.
NodeComparison_MaxHeap(node1, node2) == node1.count < node2.count

NodeComparison(node1, node2) == node1.count > node2.count

\* The candidates for nodeHeap.top(): no element is ordered above them.  Among
\* equal counts the heap's choice depends on the insertion order, which comes
\* from an unordered_map, so every candidate is possible.
HeapTops(heap) == {t \in heap : \A x \in heap : ~NodeComparison(t, x)}

\* ----------------------------------------------------- traverseForCodeMap
RECURSIVE traverseForCodeMap_SameBit(_, _, _)
traverseForCodeMap_SameBit(node, cm, prefixBits) ==
    IF node.kind = "leaf"
    THEN MapPut(cm, node.letter, prefixBits)
    ELSE LET afterLeft ==
                 IF node.left.kind # "null"
                 THEN traverseForCodeMap_SameBit(node.left, cm, prefixBits \o <<CharZero>>)
                 ELSE cm
         IN IF node.right.kind # "null"
            THEN traverseForCodeMap_SameBit(node.right, afterLeft, prefixBits \o <<CharZero>>)
            ELSE afterLeft

\* CountNode::traverseForCodeMap and its override in HuffmanTreeNode.
RECURSIVE traverseForCodeMap(_, _, _)
traverseForCodeMap(node, cm, prefixBits) ==
    IF node.kind = "leaf"
    THEN MapPut(cm, node.letter, prefixBits)
    ELSE LET afterLeft ==
                 IF node.left.kind # "null"
                 THEN traverseForCodeMap(node.left, cm, prefixBits \o <<CharZero>>)
                 ELSE cm
         IN IF node.right.kind # "null"
            THEN traverseForCodeMap(node.right, afterLeft, prefixBits \o <<CharOne>>)
            ELSE afterLeft

\* --------------------------------------------------- countCharFrequencies
\* charCounts after the read loop: each character of the text with the number
\* of its occurrences.
CharCounts(text) ==
    [ch \in Range(text) |-> Cardinality({i \in DOMAIN text : text[i] = ch})]

\* nodeHeap after countCharFrequencies: one leaf pushed per entry of charCounts.
countCharFrequencies(heap, text) ==
    LET charCounts == CharCounts(text)
    IN heap \cup {HuffmanTreeNode(ch, charCounts[ch]) : ch \in DOMAIN charCounts}

\* ---------------------------------------------------------------- buildTree
\* The loop "while (nodeHeap.size() > 1)": the roots it can end with.
RECURSIVE MergeLoop(_)
MergeLoop(heap) ==
    IF Cardinality(heap) <= 1 THEN heap
    ELSE UNION {UNION {MergeLoop(((heap \ {r}) \ {l})
                                  \cup {CountNode(r.count + l.count, l, r)})
                       : l \in HeapTops(heap \ {r})}
                : r \in HeapTops(heap)}

\* buildTree without the root node made for a lone letter.
buildTree_BareLeaf(heap) ==
    IF Cardinality(heap) = 1 THEN heap ELSE MergeLoop(heap)

\* The trees buildTree can leave in root, from a non-empty nodeHeap.
buildTree(heap) ==
    UNION {LET rest == heap \ {r}
           IN IF rest = {}
              THEN MergeLoop({CountNode(r.count, NullPtr, r)})
              ELSE UNION {MergeLoop((rest \ {l})
                                     \cup {CountNode(r.count + l.count, l, r)})
                          : l \in HeapTops(rest)}
           : r \in HeapTops(heap)}

\* ------------------------------------------------------------------- state
VARIABLES
    root,            \* HuffmanTree::root: NullPtr, WildPtr, DanglingPtr or the live tree
    nodeHeap,        \* HuffmanTree::nodeHeap: the set of nodes in the priority queue
    codeMap,         \* HuffmanTree::codeMap: character -> code
    reverseCodeMap,  \* HuffmanTree::reverseCodeMap: code -> character
    trie,            \* the local "root" of reconstructTree in the last operation
    input,           \* the file the last operation read
    output,          \* the file the last operation wrote
    lastOp,          \* "none", "encode", "decode" or "destroy"
    status,          \* "ok", "terminated" (uncaught exception), "crashed", "destroyed"
    ops              \* operations invoked so far

vars == <<root, nodeHeap, codeMap, reverseCodeMap, trie, input, output, lastOp, status, ops>>

\* The members of the object, as one record.
Self ==
    [root |-> root, nodeHeap |-> nodeHeap, codeMap |-> codeMap,
     reverseCodeMap |-> reverseCodeMap]

IsLive(p) == p.kind \in {"node", "leaf"}

\* "delete p": well defined for null and for a live node; undefined behaviour
\* for an indeterminate or already deleted pointer, which either brings the
\* process down (the object and its members are gone, the files stay) or goes
\* unnoticed.
DeleteOutcomes(p) ==
    IF p.kind \in {"wild", "dangling"} THEN {"crash", "unnoticed"} ELSE {"done"}

\* The pointer's value after "delete p": unchanged, so dangling if it was live.
AfterDelete(p) == IF IsLive(p) THEN DanglingPtr ELSE p

\* ------------------------------------------------------------------ inputs
InputAlphabet == {NL, 97, 98}

\* Twelve letters 'a'..'l' with these counts: the merged weight stays strictly
\* between the next two letters' counts, so the tree is a chain of depth 11
\* whatever the heap does with equal counts.
DeepCounts == <<1, 2, 2, 4, 6, 10, 16, 26, 42, 68, 110, 288>>

\* The character ch, n times.
RECURSIVE Run(_, _)
Run(ch, n) ==
    IF n = 0 THEN <<>>
    ELSE IF n = 1 THEN <<ch>>
    ELSE Run(ch, n \div 2) \o Run(ch, n - (n \div 2))

\* The k-th letter DeepCounts[k] times, for the first k letters from 'a' on.
RECURSIVE RunsText(_, _)
RunsText(counts, k) ==
    IF k = 0 THEN <<>> ELSE RunsText(counts, k - 1) \o Run(96 + k, counts[k])

DeepInput == RunsText(DeepCounts, Len(DeepCounts))

\* Every text of at most MaxLen characters.
ShortInputs == SeqsUpTo(InputAlphabet, MaxLen)

TableSymbols == {97, 98}
Bits == {CharZero, CharOne}
TableRecords == TableSymbols \X SeqsUpTo(Bits, MaxCodeLen)
Tables == SeqsUpTo(TableRecords, MaxRecords)

\* ------------------------------------------------------------------ encode
\* "output << p.first << p.second << endl" for the entries in the given order.
RECURSIVE TableText(_, _)
TableText(cm, order) ==
    IF order = <<>> THEN <<>>
    ELSE <<Head(order)>> \o cm[Head(order)] \o <<NL>> \o TableText(cm, Tail(order))

\* "output << codeMap[ch]" for text[lo..hi] in order (halved, to keep the
\* evaluation shallow).
RECURSIVE PayloadText(_, _, _, _)
PayloadText(cm, text, lo, hi) ==
    IF lo > hi THEN <<>>
    ELSE IF lo = hi THEN (IF text[lo] \in DOMAIN cm THEN cm[text[lo]] ELSE <<>>)
    ELSE LET mid == (lo + hi) \div 2
         IN PayloadText(cm, text, lo, mid) \o PayloadText(cm, text, mid + 1, hi)

\* What encode writes: the table, the blank line, the payload.
EncodedFile(cm, order, text) ==
    TableText(cm, order) \o <<NL>> \o PayloadText(cm, text, 1, Len(text))

\* Members after buildTree has also filled reverseCodeMap.
buildTreeMembers_BothMaps(self, t) ==
    LET cm == traverseForCodeMap(t, EmptyMap, <<>>)
    IN [self EXCEPT !.root = t, !.nodeHeap = {}, !.codeMap = cm,
                    !.reverseCodeMap = [c \in {cm[k] : k \in DOMAIN cm} |->
                                           CHOOSE k \in DOMAIN cm : cm[k] = c]]

\* The members after buildTree has run on a non-empty nodeHeap and ended with
\* tree t: codeMap cleared and refilled, nodeHeap depleted, root updated.
buildTreeMembers(self, t) ==
    [self EXCEPT !.root = t, !.nodeHeap = {},
                 !.codeMap = traverseForCodeMap(t, EmptyMap, <<>>)]

Encode(text) ==
    /\ status = "ok"
    /\ ops < MaxOps
    /\ \E heap \in {countCharFrequencies(nodeHeap, text)} :
          IF heap = {}
          THEN \* buildTree returns at once; the table written is codeMap as it is
               /\ \E order \in IterationOrders(DOMAIN codeMap) :
                      output' = EncodedFile(codeMap, order, text)
               /\ status' = "ok"
               /\ UNCHANGED <<root, nodeHeap, codeMap, reverseCodeMap>>
          ELSE \E d \in DeleteOutcomes(root) :
                 IF d = "crash"
                 THEN /\ output' = <<>>
                      /\ status' = "crashed"
                      /\ nodeHeap' = {}
                      /\ codeMap' = EmptyMap
                      /\ reverseCodeMap' = EmptyMap
                      /\ UNCHANGED root
                 ELSE \E t \in buildTree(heap) :
                        \E new \in {buildTreeMembers([Self EXCEPT !.nodeHeap = heap], t)} :
                           /\ root' = new.root
                           /\ nodeHeap' = new.nodeHeap
                           /\ codeMap' = new.codeMap
                           /\ reverseCodeMap' = new.reverseCodeMap
                           /\ \E order \in IterationOrders(DOMAIN new.codeMap) :
                                  output' = EncodedFile(new.codeMap, order, text)
                           /\ status' = "ok"
    /\ input' = text
    /\ lastOp' = "encode"
    /\ trie' = NullPtr
    /\ ops' = ops + 1

\* ------------------------------------------------------------------ decode
\* getline(input, line) from position pos: fails at the end of the file, else
\* yields the characters up to the next newline, which it consumes.
GetLine(file, pos) ==
    LET nls == {j \in pos..Len(file) : file[j] = NL}
    IN IF pos > Len(file) THEN [ok |-> FALSE, line |-> <<>>, next |-> pos]
       ELSE IF nls = {}
            THEN [ok |-> TRUE, line |-> SubSeq(file, pos, Len(file)), next |-> Len(file) + 1]
            ELSE LET j == CHOOSE x \in nls : \A y \in nls : x <= y
                 IN [ok |-> TRUE, line |-> SubSeq(file, pos, j - 1), next |-> j + 1]

IsDigit(c) == c \in 48..57

\* std::stoi on a string without leading blanks or sign: the decimal value of
\* its leading digits as an int; it throws when there is no digit
\* (invalid_argument) or the value exceeds INT_MAX (out_of_range).
RECURSIVE StoiFrom(_, _, _)
StoiFrom(s, i, acc) ==
    IF i > Len(s) \/ ~IsDigit(s[i]) THEN [thrown |-> FALSE, value |-> acc]
    ELSE LET d == s[i] - 48
         IN IF acc > (INT_MAX - d) \div 10 THEN [thrown |-> TRUE, value |-> 0]
            ELSE StoiFrom(s, i + 1, acc * 10 + d)

stoi(s) ==
    IF s = <<>> \/ ~IsDigit(s[1]) THEN [thrown |-> TRUE, value |-> 0]
    ELSE StoiFrom(s, 1, 0)

\* The walk of reconstructTree for one record, from node current: the low bit
\* of binary picks the child, binary is shifted right, and the last step hangs
\* a new HuffmanTreeNode.
RECURSIVE InsertLeaf(_, _, _, _)
InsertLeaf(current, binary, length, ch) ==
    IF length > 1
    THEN IF binary % 2 = 1
         THEN LET child == IF current.right.kind = "null"
                           THEN CountNode(0, NullPtr, NullPtr) ELSE current.right
              IN [current EXCEPT !.right = InsertLeaf(child, binary \div 2, length - 1, ch)]
         ELSE LET child == IF current.left.kind = "null"
                           THEN CountNode(0, NullPtr, NullPtr) ELSE current.left
              IN [current EXCEPT !.left = InsertLeaf(child, binary \div 2, length - 1, ch)]
    ELSE IF binary % 2 = 1
         THEN [current EXCEPT !.right = HuffmanTreeNode(ch, 0)]
         ELSE [current EXCEPT !.left = HuffmanTreeNode(ch, 0)]

\* The loop body without "reverseCodeMap[s_binary] = ch".
ReadRecord_NoReverse(st, line) ==
    LET ch == line[1]
        s_binary == Tail(line)
        n == stoi(s_binary)
    IN IF n.thrown
       THEN [st EXCEPT !.codeMap = MapPut(st.codeMap, ch, s_binary), !.thrown = TRUE]
       ELSE [st EXCEPT !.codeMap = MapPut(st.codeMap, ch, s_binary),
                       !.trie = InsertLeaf(st.trie, n.value, Len(s_binary), ch)]

\* The body of reconstructTree's loop for one non-empty line: both maps get the
\* record, then stoi may throw, then the tree gets the leaf.
ReadRecord(st, line) ==
    LET ch == line[1]
        s_binary == Tail(line)
        n == stoi(s_binary)
        maps == [st EXCEPT !.codeMap = MapPut(st.codeMap, ch, s_binary),
                           !.reverseCodeMap = MapPut(st.reverseCodeMap, s_binary, ch)]
    IN IF n.thrown
       THEN [maps EXCEPT !.thrown = TRUE]
       ELSE [maps EXCEPT !.trie = InsertLeaf(st.trie, n.value, Len(s_binary), ch)]

\* "while (getline(input, line))" with its break on an empty line.
RECURSIVE ReadTable(_, _)
ReadTable(file, st) ==
    LET g == GetLine(file, st.pos)
    IN IF ~g.ok THEN st
       ELSE IF g.line = <<>> THEN [st EXCEPT !.pos = g.next]
       ELSE LET after == ReadRecord([st EXCEPT !.pos = g.next], g.line)
            IN IF after.thrown THEN after ELSE ReadTable(file, after)

\* reconstructTree once "delete root" is past: the member root keeps its value
\* (the new tree goes to a local variable of the same name), both maps are
\* cleared and refilled from the table.
reconstructTree(self, file) ==
    ReadTable(file, [root |-> AfterDelete(self.root), nodeHeap |-> self.nodeHeap,
                     codeMap |-> EmptyMap, reverseCodeMap |-> EmptyMap,
                     trie |-> CountNode(0, NullPtr, NullPtr),
                     pos |-> 1, thrown |-> FALSE])

IsSpace(c) == c \in {9, 10, 11, 12, 13, 32}

\* The loop "while (input >> ch)" of decode: blanks are skipped, each character
\* is appended to binary, and a match in reverseCodeMap is written and resets it.
RECURSIVE DecodeLoop(_, _, _, _, _)
DecodeLoop(file, pos, binary, out, rcm) ==
    LET rest == {j \in pos..Len(file) : ~IsSpace(file[j])}
    IN IF rest = {} THEN out
       ELSE LET j == CHOOSE x \in rest : \A y \in rest : x <= y
                b == binary \o <<file[j]>>
            IN IF b \in DOMAIN rcm
               THEN DecodeLoop(file, j + 1, <<>>, out \o <<rcm[b]>>, rcm)
               ELSE DecodeLoop(file, j + 1, b, out, rcm)

RECURSIVE TableLinesText(_)
TableLinesText(t) ==
    IF t = <<>> THEN <<>>
    ELSE <<Head(t)[1]>> \o Head(t)[2] \o <<NL>> \o TableLinesText(Tail(t))

RECURSIVE TableCodesText(_)
TableCodesText(t) ==
    IF t = <<>> THEN <<>> ELSE Head(t)[2] \o TableCodesText(Tail(t))

\* A hand-written file: the table's lines, the blank line, and as payload each
\* code of the table once, in the table's order.
TableFile(t) == TableLinesText(t) \o <<NL>> \o TableCodesText(t)

TableFiles == {TableFile(t) : t \in Tables}

\* The files decode is run on: hand-written ones, and what encode just wrote.
DecodeFiles == TableFiles \cup (IF lastOp = "encode" THEN {output} ELSE {})

Decode(file) ==
    /\ status = "ok"
    /\ ops < MaxOps
    /\ \E d \in DeleteOutcomes(root) :
         IF d = "crash"
         THEN /\ status' = "crashed"
              /\ output' = <<>>
              /\ trie' = NullPtr
              /\ nodeHeap' = {}
              /\ codeMap' = EmptyMap
              /\ reverseCodeMap' = EmptyMap
              /\ UNCHANGED root
         ELSE \E r \in {reconstructTree(Self, file)} :
                 /\ root' = r.root
                 /\ IF r.thrown
                    THEN \* std::terminate: the process and the object are gone
                         /\ status' = "terminated"
                         /\ output' = <<>>
                         /\ trie' = NullPtr
                         /\ nodeHeap' = {}
                         /\ codeMap' = EmptyMap
                         /\ reverseCodeMap' = EmptyMap
                    ELSE /\ status' = "ok"
                         /\ output' = DecodeLoop(file, r.pos, <<>>, <<>>, r.reverseCodeMap)
                         /\ trie' = r.trie
                         /\ nodeHeap' = r.nodeHeap
                         /\ codeMap' = r.codeMap
                         /\ reverseCodeMap' = r.reverseCodeMap
    /\ input' = file
    /\ lastOp' = "decode"
    /\ ops' = ops + 1

\* -------------------------------------------------------------- destructor
\* ~HuffmanTree: "delete root", then the containers are destroyed.  No file is
\* read or written.
Destroy ==
    /\ status = "ok"
    /\ \E d \in DeleteOutcomes(root) :
         status' = IF d = "crash" THEN "crashed" ELSE "destroyed"
    /\ root' = AfterDelete(root)
    /\ nodeHeap' = {}
    /\ codeMap' = EmptyMap
    /\ reverseCodeMap' = EmptyMap
    /\ trie' = NullPtr
    /\ input' = <<>>
    /\ output' = <<>>
    /\ lastOp' = "destroy"
    /\ UNCHANGED ops

\* ----------------------------------------------------------- specification
\* HuffmanTree has no constructor: root starts with an indeterminate value, the
\* containers start empty.
Init ==
    /\ root \in {NullPtr, WildPtr}
    /\ nodeHeap = {}
    /\ codeMap = EmptyMap
    /\ reverseCodeMap = EmptyMap
    /\ trie = NullPtr
    /\ input = <<>>
    /\ output = <<>>
    /\ lastOp = "none"
    /\ status = "ok"
    /\ ops = 0

\* The same object when the indeterminate root happens to be null.
InitNullRoot == Init /\ root = NullPtr

Next ==
    \/ \E text \in ShortInputs : Encode(text)
    \/ \E file \in DecodeFiles : Decode(file)
    \/ Encode(DeepInput)
    \/ Destroy

Spec == Init /\ [][Next]_vars

SpecNullRoot == InitNullRoot /\ [][Next]_vars

\* ------------------------------------------------------------------ claims
\* The records of a file's table section, as <<symbol, code>> pairs: its lines
\* up to the first empty line.
RECURSIVE RecordsFrom(_, _)
RecordsFrom(file, pos) ==
    LET g == GetLine(file, pos)
    IN IF ~g.ok \/ g.line = <<>> THEN <<>>
       ELSE <<(<<g.line[1], Tail(g.line)>>)>> \o RecordsFrom(file, g.next)

RecordsOf(file) == Range(RecordsFrom(file, 1))

\* The last operation was a completed encode of a non-empty text, so buildTree
\* ran on a non-empty frequency table.
Built == lastOp = "encode" /\ status = "ok" /\ input # <<>>

\* The last operation was a decode that returned.
Decoded == lastOp = "decode" /\ status = "ok"

\* m2 is exactly the inverse of m1.
IsInverse(m1, m2) ==
    /\ DOMAIN m2 = {m1[k] : k \in DOMAIN m1}
    /\ \A k \in DOMAIN m1 : m2[m1[k]] = k

\* C1: decode run on the file that encode wrote for a non-empty text without
\* newline completes normally and writes exactly that text.
C1_RoundTrip ==
    [][(/\ Built
        /\ NL \notin Range(input)
        /\ lastOp' = "decode"
        /\ input' = output)
       => (status' = "ok" /\ output' = input)]_vars

\* C2: after buildTree on a non-empty frequency table, no code in codeMap is a
\* prefix of the code of another symbol.
C2_PrefixFree ==
    Built => \A a, b \in DOMAIN codeMap :
                 a # b => ~IsPrefix(codeMap[a], codeMap[b])

C2_Witness ==
    /\ Built
    /\ \E a, b \in DOMAIN codeMap : Len(codeMap[a]) < Len(codeMap[b])

\* C3: after buildTree on a non-empty frequency table, codeMap has an entry
\* for each symbol of the table and no other, and every code has length >= 1.
C3_OneCodePerSymbol ==
    Built => /\ DOMAIN codeMap = Range(input)
             /\ \A ch \in DOMAIN codeMap : Len(codeMap[ch]) >= 1

C3_Witness ==
    /\ Built
    /\ ops = 2
    /\ Cardinality(Range(input)) = 1
    /\ Len(input) >= 2

\* C4: encode of an empty input writes no table record and no payload bit (only
\* the blank line that ends the table), whatever was done with the object before.
C4_EmptyInputWritesNothing ==
    (lastOp = "encode" /\ status = "ok" /\ input = <<>>) => output = <<NL>>

\* C5: decode of a file whose table has a record with an empty code ends in a
\* reported format error and writes no decoded symbol.
C5_EmptyCodeRejected ==
    (lastOp = "decode" /\ \E r \in RecordsOf(input) : r[2] = <<>>)
        => (status = "format_error" /\ output = <<>>)

\* No symbol and no code occurs in two different records.
DistinctRecords(recs) ==
    \A r1, r2 \in recs : r1 # r2 => (r1[1] # r2[1] /\ r1[2] # r2[2])

\* The maps hold exactly the pairs of the table's records.
MapsHoldRecords(recs) ==
    /\ DOMAIN codeMap = {r[1] : r \in recs}
    /\ DOMAIN reverseCodeMap = {r[2] : r \in recs}
    /\ \A r \in recs : codeMap[r[1]] = r[2] /\ reverseCodeMap[r[2]] = r[1]

C7_Monotone ==
    Built => \A a, b \in DOMAIN codeMap :
                 CharCounts(input)[a] > CharCounts(input)[b]
                     => Len(codeMap[a]) <= Len(codeMap[b])

C7_Witness ==
    /\ Built
    /\ \E a, b \in DOMAIN codeMap :
           /\ CharCounts(input)[a] > CharCounts(input)[b]
           /\ Len(codeMap[a]) < Len(codeMap[b])

RECURSIVE Walk(_, _)
Walk(n, code) ==
    IF code = <<>> \/ n.kind = "null" THEN n
    ELSE Walk(IF Head(code) = CharOne THEN n.right ELSE n.left, Tail(code))

\* The records' codes form a prefix code over distinct symbols.
PrefixCodeTable(recs) ==
    /\ DistinctRecords(recs)
    /\ \A r \in recs : r[2] # <<>>
    /\ \A r1, r2 \in recs : r1 # r2 => ~IsPrefix(r1[2], r2[2])

\* C9: after reconstructTree on a prefix-code table, following a record's code
\* from the trie's root, first bit first, passes only nodes that have a child
\* and ends at a childless leaf holding the record's symbol.
C9_TrieFollowsCode ==
    (Decoded /\ PrefixCodeTable(RecordsOf(input)))
        => \A r \in RecordsOf(input) :
              /\ \A k \in 0..(Len(r[2]) - 1) :
                     LET n == Walk(trie, SubSeq(r[2], 1, k))
                     IN n.kind = "node" /\ (n.left # NullPtr \/ n.right # NullPtr)
              /\ LET leaf == Walk(trie, r[2])
                 IN /\ leaf.kind = "leaf"
                    /\ leaf.letter = r[1]
                    /\ leaf.left = NullPtr /\ leaf.right = NullPtr

\* C10: on an object whose root started null, root is null or points to a live
\* node, and when a tree has just been reconstructed it is that tree's root.
C10_RootOwned ==
    status = "ok" => \/ root = NullPtr
                     \/ IsLive(root) /\ (lastOp = "decode" => root = trie)

====
